---- MODULE Spec2Model ----
(***************************************************************************)
(* ZScoreTransformer of 4-week4/1-exending-sklearn.ipynb (final code cell): *)
(* one instance with the attributes mean_ and std_, and the methods fit,    *)
(* transform and fit_transform acting on two-dimensional numeric arrays.    *)
(*                                                                         *)
(* Numbers.  The arrays hold floats; the model computes with exact reals   *)
(* of the form q * sqrt(m) (q rational, m a squarefree positive integer),   *)
(* which is closed under everything the code does to integer-valued        *)
(* tables (sum, division by the row count, square, square root, x - mean,  *)
(* d / std), plus the IEEE specials nan, +inf and -inf that numpy returns   *)
(* for 0/0, an empty mean and x/0.  Floating-point rounding is not         *)
(* modelled.                                                               *)
(***************************************************************************)
EXTENDS Integers, Sequences, FiniteSets

VARIABLES
    mean_,      \* self.mean_ : None or a 1-d array, one entry per column
    std_,       \* self.std_  : None or a 1-d array, one entry per column
    op,         \* the method called last ("__init__" after construction)
    arg,        \* the X passed to it
    ret,        \* how that call ended: the value returned or the exception raised
    fitted_on   \* history: the X of the last fit that returned (None if none did)

vars == <<mean_, std_, op, arg, ret, fitted_on>>

---------------------------------------------------------------------------
(* Bounds of the input tables.                                             *)

MaxRows == 2
MaxCols == 3
MaxCells == 4

\* the entries of the tables
Values == {0, 1}

---------------------------------------------------------------------------
(* Exact numbers: [t, n, d, m] is (n/d) * sqrt(m) when t = "fin".           *)

Abs(x) == IF x < 0 THEN -x ELSE x

RECURSIVE GCD(_, _)
GCD(a, b) == IF b = 0 THEN a ELSE GCD(b, a % b)

\* the largest k >= best with k*k dividing N, searching from k upwards
RECURSIVE SquarePart(_, _, _)
SquarePart(N, k, best) ==
    IF k * k > N THEN best
    ELSE SquarePart(N, k + 1, IF N % (k * k) = 0 THEN k ELSE best)

NaN == [t |-> "nan", n |-> 0, d |-> 1, m |-> 1]
Inf(s) == [t |-> "inf", n |-> s, d |-> 1, m |-> 1]

\* (n/d) * sqrt(m) in lowest terms; d > 0, m squarefree
Fin(n, d, m) ==
    IF n = 0 THEN [t |-> "fin", n |-> 0, d |-> 1, m |-> 1]
    ELSE LET g == GCD(Abs(n), d)
         IN  [t |-> "fin", n |-> n \div g, d |-> d \div g, m |-> m]

Rat(n, d) == IF d < 0 THEN Fin(-n, -d, 1) ELSE Fin(n, d, 1)

\* a - b on float64: nan is absorbing; the operands are rationals
Subtract(a, b) ==
    IF a.t = "nan" \/ b.t = "nan" THEN NaN
    ELSE Rat(a.n * b.d - b.n * a.d, a.d * b.d)

Square(a) == IF a.t = "nan" THEN NaN ELSE Rat(a.n * a.n * a.m, a.d * a.d)

\* sqrt of a rational p/q >= 0 in lowest terms: (a/(b*q')) * sqrt(p'*q')
\* where p = a*a*p' and q = b*b*q'
Sqrt(a) ==
    IF a.t = "nan" THEN NaN
    ELSE IF a.n = 0 THEN Rat(0, 1)
    ELSE LET sp == SquarePart(a.n, 1, 1)
             sq == SquarePart(a.d, 1, 1)
             p1 == a.n \div (sp * sp)
             q1 == a.d \div (sq * sq)
         IN  Fin(sp, sq * q1, p1 * q1)

\* a / b on float64 under numpy's default error state: x/0 is +-inf,
\* 0/0 is nan, and only a RuntimeWarning is issued.  a is rational.
TrueDivide(a, b) ==
    IF a.t = "nan" \/ b.t = "nan" THEN NaN
    ELSE IF b.n = 0 THEN (IF a.n = 0 THEN NaN ELSE Inf(IF a.n > 0 THEN 1 ELSE -1))
    ELSE LET q == Rat(a.n * b.d, a.d * b.n * b.m)
         IN  Fin(q.n, q.d, IF q.n = 0 THEN 1 ELSE b.m)

\* sum of rationals / count, nan for an empty axis (numpy: "Mean of empty slice")
RECURSIVE Sum(_)
Sum(s) == IF s = <<>> THEN Rat(0, 1)
          ELSE LET r == Sum(Tail(s))
               IN  IF Head(s).t = "nan" \/ r.t = "nan" THEN NaN
                   ELSE Rat(Head(s).n * r.d + r.n * Head(s).d, Head(s).d * r.d)

DivideByCount(a, cnt) ==
    IF cnt = 0 \/ a.t = "nan" THEN NaN ELSE Rat(a.n, a.d * cnt)

---------------------------------------------------------------------------
(* Python values.                                                          *)

None == [py |-> "None", shape |-> <<>>, data |-> <<>>]
Self == [py |-> "self", shape |-> <<>>, data |-> <<>>]

\* a 1-d array
Array1(v) == [py |-> "ndarray", shape |-> <<Len(v)>>, data |-> v]
\* a 2-d array of r rows and c columns: data is the sequence of its rows
Array2(r, c, rows) == [py |-> "ndarray", shape |-> <<r, c>>, data |-> rows]

Return(v) == [exc |-> "", value |-> v]
Raise(e) == [exc |-> e, value |-> None]

Rows(X) == X.shape[1]
Cols(X) == X.shape[2]
Column(X, j) == [i \in 1..Rows(X) |-> Rat(X.data[i][j], 1)]

AsFloat(X) == Array2(Rows(X), Cols(X),
                     [i \in 1..Rows(X) |-> [j \in 1..Cols(X) |-> Rat(X.data[i][j], 1)]])

---------------------------------------------------------------------------
(* numpy.                                                                  *)

\* np.mean(X, axis=0): per column, the sum over the rows divided by the row count
np_mean(X) ==
    Array1([j \in 1..Cols(X) |-> DivideByCount(Sum(Column(X, j)), Rows(X))])

\* np_std with the sample divisor (ddof = 1): rows - 1 in place of rows
np_std_ddof1(X) ==
    Array1([j \in 1..Cols(X) |->
        LET col == Column(X, j)
            mu  == DivideByCount(Sum(col), Rows(X))
            dev == [i \in 1..Rows(X) |-> Square(Subtract(col[i], mu))]
        IN  Sqrt(DivideByCount(Sum(dev), IF Rows(X) = 0 THEN 0 ELSE Rows(X) - 1))])

\* np.std(X, axis=0), ddof = 0: per column sqrt(mean(abs(x - x.mean())**2))
np_std(X) ==
    Array1([j \in 1..Cols(X) |->
        LET col == Column(X, j)
            mu  == DivideByCount(Sum(col), Rows(X))
            dev == [i \in 1..Rows(X) |-> Square(Subtract(col[i], mu))]
        IN  Sqrt(DivideByCount(Sum(dev), Rows(X)))])

\* the elementwise operation of a binary operator
Apply(ufunc, x, y) ==
    CASE ufunc = "subtract"    -> Subtract(x, y)
      [] ufunc = "true_divide" -> TrueDivide(x, y)

\* a (2-d array, or an exception already raised) combined elementwise with the
\* attribute v (None or a 1-d array) under numpy's broadcasting rules:
\*   - v is None: the loop is the object loop; with no element to visit it
\*     returns the empty array, otherwise float - NoneType raises TypeError;
\*   - trailing dimensions c and k are compatible when equal or when one is 1
\*     (that operand is stretched), otherwise ValueError ("could not be
\*     broadcast together"), also for an array without rows.
Broadcast(a, v, ufunc) ==
    IF a.exc # "" THEN a
    ELSE LET A == a.value
             r == Rows(A)
             c == Cols(A)
         IN  IF v.py = "None"
             THEN (IF r * c = 0 THEN Return(A) ELSE Raise("TypeError"))
             ELSE LET k == v.shape[1]
                      w == IF c > k THEN c ELSE k
                  IN  IF c # k /\ c # 1 /\ k # 1 THEN Raise("ValueError")
                      ELSE Return(Array2(r, w,
                             [i \in 1..r |-> [j \in 1..w |->
                                 Apply(ufunc, A.data[i][IF c = 1 THEN 1 ELSE j],
                                              v.data[IF k = 1 THEN 1 ELSE j])]]))

---------------------------------------------------------------------------
(* ZScoreTransformer.  A method is an operator from the instance and the    *)
(* argument to the instance afterwards and the method's outcome.            *)

\* __init__
New == [mean_ |-> None, std_ |-> None]

\* fit that keeps a std_ already stored (a partial update)
fit_partial(self, X) ==
    [self |-> [mean_ |-> np_mean(X),
               std_  |-> IF self.std_ = None THEN np_std(X) ELSE self.std_],
     ret  |-> Return(Self)]

fit(self, X) ==
    [self |-> [mean_ |-> np_mean(X), std_ |-> np_std(X)],
     ret  |-> Return(Self)]

\* transform that forgets to centre: X / self.std_
transform_uncentred(self, X) ==
    [self |-> self,
     ret  |-> Broadcast(IF self.mean_ = None
                        THEN Broadcast(Return(AsFloat(X)), self.mean_, "subtract")
                        ELSE Return(AsFloat(X)),
                        self.std_, "true_divide")]

\* transform that re-estimates the statistics from its own input
transform_refit(self, X) ==
    LET s == [mean_ |-> np_mean(X), std_ |-> np_std(X)]
    IN  [self |-> s,
         ret  |-> Broadcast(Broadcast(Return(AsFloat(X)), s.mean_, "subtract"),
                            s.std_, "true_divide")]

transform(self, X) ==
    [self |-> self,
     ret  |-> Broadcast(Broadcast(Return(AsFloat(X)), self.mean_, "subtract"),
                        self.std_, "true_divide")]

\* fit_transform that transforms with the statistics it had, then fits
fit_transform_stale(self, X) ==
    [self |-> fit(self, X).self, ret |-> transform(self, X).ret]

\* return self.fit(X).transform(X)
fit_transform(self, X) == transform(fit(self, X).self, X)

---------------------------------------------------------------------------
(* The callers' tables: every table with entries in Values with at most     *)
(* MaxRows rows (none included), 1..MaxCols columns and MaxCells cells, and *)
(* the two tables of the documented example.                               *)

Shapes == {s \in (0..MaxRows) \X (1..MaxCols) : s[1] * s[2] <= MaxCells}

Tables(r, c) == {Array2(r, c, rows) : rows \in [1..r -> [1..c -> Values]]}

FitExample == Array2(3, 2, <<(<<1, 10>>), (<<2, 20>>), (<<3, 30>>)>>)
TransformExample == Array2(1, 2, <<(<<2, 20>>)>>)

Datasets == UNION {Tables(s[1], s[2]) : s \in Shapes}
              \cup {FitExample, TransformExample}

---------------------------------------------------------------------------
(* The state machine: one instance, called any number of times.            *)

me == [mean_ |-> mean_, std_ |-> std_]

Init ==
    /\ mean_ = New.mean_
    /\ std_ = New.std_
    /\ op = "__init__"
    /\ arg = None
    /\ ret = Return(None)
    /\ fitted_on = None

Call(name, X, out) ==
    /\ mean_' = out.self.mean_
    /\ std_' = out.self.std_
    /\ op' = name
    /\ arg' = X
    /\ ret' = out.ret

Fit(X) ==
    /\ Call("fit", X, fit(me, X))
    /\ fitted_on' = X

Transform(X) ==
    /\ Call("transform", X, transform(me, X))
    /\ UNCHANGED fitted_on

\* fit returns in every case, so the X of fit_transform is the X of a fit that returned
FitTransform(X) ==
    /\ Call("fit_transform", X, fit_transform(me, X))
    /\ fitted_on' = X

Next ==
    \E X \in Datasets :
        \/ Fit(X)
        \/ Transform(X)
        \/ FitTransform(X)

Spec == Init /\ [][Next]_vars

---------------------------------------------------------------------------
(* Vocabulary of the properties.                                           *)

\* The error kinds of the specification, as the code's outcomes realise them:
\* the TypeError of an operation on None is NotFitted, the ValueError of a
\* failed broadcast is ShapeMismatch.  Nothing in the code raises for a zero
\* spread (DivisionByZero) or a table without rows (InvalidInput).
Kind(r) ==
    CASE r.exc = ""           -> "ok"
      [] r.exc = "TypeError"  -> "NotFitted"
      [] r.exc = "ValueError" -> "ShapeMismatch"
      [] OTHER                -> r.exc

RECURSIVE Total(_, _)
Total(f, n) == IF n = 0 THEN 0 ELSE f[n] + Total(f, n - 1)

RECURSIVE Product(_, _)
Product(f, n) == IF n = 0 THEN 1 ELSE f[n] * Product(f, n - 1)

\* rows * mu = sum of column j of X, mu a rational
MeanOf(X, j, mu) ==
    /\ mu.t = "fin" /\ mu.m = 1 /\ mu.d > 0
    /\ Rows(X) * mu.n = mu.d * Total([i \in 1..Rows(X) |-> X.data[i][j]], Rows(X))

\* rows * sd^2 = sum over column j of X of (x - mu)^2, sd >= 0
SpreadOf(X, j, mu, sd) ==
    /\ sd.t = "fin" /\ sd.n >= 0 /\ sd.d > 0 /\ sd.m >= 1
    /\ Rows(X) * sd.n * sd.n * sd.m * mu.d * mu.d
         = sd.d * sd.d * Total([i \in 1..Rows(X) |->
                                  (X.data[i][j] * mu.d - mu.n) * (X.data[i][j] * mu.d - mu.n)],
                               Rows(X))

\* mean and std are the statistics of X: one entry per column, each column's
\* mean and population standard deviation (nan throughout when X has no row)
StatisticsOf(X, mean, std) ==
    /\ mean.py = "ndarray" /\ mean.shape = <<Cols(X)>> /\ Len(mean.data) = Cols(X)
    /\ std.py = "ndarray" /\ std.shape = <<Cols(X)>> /\ Len(std.data) = Cols(X)
    /\ \A j \in 1..Cols(X) :
          IF Rows(X) = 0
          THEN mean.data[j].t = "nan" /\ std.data[j].t = "nan"
          ELSE MeanOf(X, j, mean.data[j]) /\ SpreadOf(X, j, mean.data[j], std.data[j])

IsZero(a) == a.t = "fin" /\ a.n = 0
Fitted == mean_ # None /\ std_ # None
ConstantColumn(X, j) == \A i \in 1..Rows(X) : X.data[i][j] = X.data[1][j]

\* z = (x - mu) / sd, stated without a division: z * sd = x - mu, with z a
\* rational multiple of the same root as sd (nan when a statistic is nan)
ZScoreOf(z, x, mu, sd) ==
    IF mu.t = "nan" \/ sd.t = "nan" THEN z.t = "nan"
    ELSE /\ z.t = "fin" /\ z.d > 0
         /\ z.n # 0 => z.m = sd.m
         /\ z.n = 0 => z.m = 1
         /\ z.n * sd.n * sd.m * mu.d = (x * mu.d - mu.n) * z.d * sd.d

\* the entries of column j of the array Z sum to zero and their squares sum
\* to the row count (over the common denominator of the entries)
Standardized(Z, j) ==
    LET r == Rows(Z)
        e == [i \in 1..r |-> Z.data[i][j]]
        P == Product([i \in 1..r |-> e[i].d], r)
    IN  /\ \A i \in 1..r : e[i].t = "fin"
        /\ \A i, k \in 1..r : (e[i].n # 0 /\ e[k].n # 0) => e[i].m = e[k].m
        /\ Total([i \in 1..r |-> e[i].n * (P \div e[i].d)], r) = 0
        /\ Total([i \in 1..r |-> e[i].n * e[i].n * e[i].m
                                   * (P \div e[i].d) * (P \div e[i].d)], r) = r * P * P

---------------------------------------------------------------------------
(* Properties.                                                             *)

\* C1: on an instance on which no fit has returned, every transform, for any
\* input, ends in NotFitted and returns no array.
C1_TransformBeforeFitIsNotFitted ==
    (op = "transform" /\ fitted_on = None) => Kind(ret) = "NotFitted"

\* C2: after a fit on a table with a constant column (zero spread), a
\* transform ends in DivisionByZero and returns no array.  Stated for the
\* inputs that reach the division: at least one row, the fitted column count.
C2_ConstantColumnIsDivisionByZero ==
    ( /\ op = "transform"
      /\ fitted_on # None
      /\ Rows(fitted_on) >= 1
      /\ \E j \in 1..Cols(fitted_on) : ConstantColumn(fitted_on, j)
      /\ Rows(arg) >= 1
      /\ Cols(arg) = Cols(fitted_on) )
    => Kind(ret) = "DivisionByZero"

\* C3: after a fit on a table of k columns, a transform of a table whose
\* column count is not k ends in ShapeMismatch; no result is returned by
\* stretching a 1-column operand.  Stated for a fit on a table with rows and
\* no constant column, and inputs of at least one row.
C3_OtherColumnCountIsShapeMismatch ==
    ( /\ op = "transform"
      /\ fitted_on # None
      /\ Rows(fitted_on) >= 1
      /\ \A j \in 1..Cols(fitted_on) : ~ConstantColumn(fitted_on, j)
      /\ Rows(arg) >= 1
      /\ Cols(arg) # Cols(fitted_on) )
    => Kind(ret) = "ShapeMismatch"

\* C4: fit on a table without rows ends in InvalidInput and does not leave
\* the instance fitted with statistics derived from the empty table.
C4_FitOnNoRowsIsInvalidInput ==
    (op = "fit" /\ Rows(arg) = 0)
    => /\ Kind(ret) = "InvalidInput"
       /\ \A j \in 1..Len(mean_.data) : mean_.data[j].t # "nan"

\* C5: whatever the instance was before, fit_transform(D) ends as fit(D)
\* followed by transform(D) ends: the same array returned or the same error,
\* and the same mean_ and std_ stored.  Both the call fit_transform(D) and
\* the calls fit(D) ... transform(D) end in the one outcome and the one pair
\* of statistics that D alone determines.
C5_FitTransformIsFitThenTransform ==
    ( \/ op = "fit_transform"
      \/ (op = "transform" /\ fitted_on = arg) )
    => LET one == fit_transform(New, arg)
       IN  /\ ret = one.ret
           /\ mean_ = one.self.mean_
           /\ std_ = one.self.std_

\* C6: after fit on a table of n >= 1 rows, mean_ and std_ have one entry
\* per column, and for every column n * mean = the column's sum and
\* n * std^2 = the sum of the squared deviations from the mean (divisor n).
\* On [[1,10],[2,20],[3,30]]: mean = [2,20], std^2 = [2/3, 200/3].
C6_FitIsMeanAndPopulationStd ==
    /\ (op = "fit" /\ Rows(arg) >= 1) => StatisticsOf(arg, mean_, std_)
    /\ (op = "fit" /\ arg = FitExample)
       => /\ mean_.data = <<Rat(2, 1), Rat(20, 1)>>
          /\ Square(std_.data[1]) = Rat(2, 3)
          /\ Square(std_.data[2]) = Rat(200, 3)

\* C7: on a fitted instance with no zero spread, transform of a table with
\* the fitted column count returns an array of the input's shape whose
\* entry (r, c) is (input[r][c] - mean[c]) / std[c]; a row equal to the mean
\* maps to zeros; and after fit and transform of the same table every
\* column of nonzero spread sums to zero and its squares sum to the row count.
C7_TransformIsZScore ==
    /\ ( /\ op = "transform"
         /\ Fitted
         /\ Cols(arg) = Len(mean_.data)
         /\ \A j \in 1..Len(std_.data) : ~IsZero(std_.data[j]) )
       => /\ ret.exc = ""
          /\ ret.value.py = "ndarray"
          /\ ret.value.shape = arg.shape
          /\ Len(ret.value.data) = Rows(arg)
          /\ \A i \in 1..Rows(arg) :
                /\ Len(ret.value.data[i]) = Cols(arg)
                /\ \A j \in 1..Cols(arg) :
                      ZScoreOf(ret.value.data[i][j], arg.data[i][j],
                               mean_.data[j], std_.data[j])
          /\ \A i \in 1..Rows(arg) :
                (\A j \in 1..Cols(arg) : mean_.data[j] = Rat(arg.data[i][j], 1))
                => \A j \in 1..Cols(arg) : IsZero(ret.value.data[i][j])
    /\ (op \in {"transform", "fit_transform"} /\ fitted_on = arg /\ Rows(arg) >= 1)
       => \A j \in 1..Cols(arg) :
             ~IsZero(std_.data[j]) => (ret.exc = "" /\ Standardized(ret.value, j))

\* C8: in every state mean_ and std_ are both None, or both arrays of one
\* length that are the mean and spread of the table of the last fit (or
\* fit_transform) that returned: nothing of an earlier fit survives, and no
\* state pairs the mean of one table with the spread of another.
C8_StatisticsAreThoseOfLastFit ==
    IF fitted_on = None
    THEN mean_ = None /\ std_ = None
    ELSE /\ Fitted
         /\ Len(mean_.data) = Len(std_.data)
         /\ StatisticsOf(fitted_on, mean_, std_)

C10_FailedFitChangesNothing ==
    [][ /\ Fitted => Fitted'
        /\ ( /\ fitted_on # None
             /\ Rows(fitted_on) >= 1
             /\ op' \in {"fit", "fit_transform"}
             /\ Rows(arg') = 0 )
           => (mean_' = mean_ /\ std_' = std_) ]_vars

---------------------------------------------------------------------------
(* Reachable states in which the properties' cases happen.                 *)

\* fit(D) then transform(D) on a table of two distinct rows returned an array
C5_Witness ==
    /\ op = "transform" /\ fitted_on = arg
    /\ Rows(arg) = 2 /\ arg.data[1] # arg.data[2]
    /\ ret.exc = "" /\ ret.value.shape = arg.shape

\* fit on the documented example: mean [2, 20], std [sqrt(6)/3, 10*sqrt(6)/3]
C6_Witness ==
    /\ op = "fit" /\ arg = FitExample
    /\ mean_.data = <<Rat(2, 1), Rat(20, 1)>>
    /\ std_.data = <<Fin(1, 3, 6), Fin(10, 3, 6)>>

\* fitted on the example, transform of [[2, 20]] returned [[0, 0]]
C7_Witness ==
    /\ op = "transform" /\ fitted_on = FitExample /\ arg = TransformExample
    /\ ret = Return(Array2(1, 2, <<(<<Rat(0, 1), Rat(0, 1)>>)>>))

\* a failed transform on an instance fitted on three columns
C8_Witness ==
    /\ op = "transform" /\ ret.exc = "ValueError"
    /\ Fitted /\ Len(mean_.data) = 3 /\ Cols(fitted_on) = 3

====
